---- MODULE Spec2Model ----
(***************************************************************************)
(* Model of potat-dev/networks-coursework-ping:                            *)
(*   internal/pinger/pinger.go  Pinger.Ping, Pinger.PingUDP, PrintResults  *)
(*   cmd/ping/main.go           main (run the probe, then print)           *)
(*                                                                         *)
(* One run of Ping or PingUDP is a sequential process; its position is pc. *)
(* The network, the resolver and the clock are the environment: every      *)
(* library call that can fail fails nondeterministically, every read       *)
(* returns whatever packet the environment delivers.  Durations are in     *)
(* nanoseconds, as time.Duration is.                                       *)
(***************************************************************************)
EXTENDS Integers, Sequences, FiniteSets, TLC

\* ---------------------------------------------------------------- bounds
MaxCount == 2          \* largest configured Count
MaxPacketSize == 5     \* largest configured PacketSize
MaxRTT == 2            \* measured round trips are 0..MaxRTT steps of RTTStep
RTTStep == 400000      \* nanoseconds per step of a measured round trip
MaxLen == 5            \* longest result list handed directly to PrintResults
TimeoutValue == 2000000   \* the configured Timeout (WithTimeout), 2ms
IntervalValue == 1000000  \* the configured IntervalMS (WithInterval), 1ms

\* ------------------------------------------------------ program constants
ReadBufLen == 1500     \* rb := make([]byte, 1500)
Mod16 == 65536      \* 2^16: os.Getpid() & 0xffff, uint16(...)
Millisecond == 1000000 \* time.Millisecond, in nanoseconds

VARIABLES
    proto,      \* "icmp": Ping() runs; "udp": PingUDP() runs
    config,     \* Pinger.config (PingConfig)
    getpid,     \* os.Getpid() of the process
    pc,         \* position of the run
    seq,        \* loop variable seq
    conn,       \* "none" | "open" | "closed"
    opened,     \* number of transports opened so far
    results,    \* local slice results
    sent,       \* packets handed to conn.WriteTo / conn.Write, in order
    rb,         \* what the read of the current attempt returned
    sleeps,     \* sequence numbers after which time.Sleep(IntervalMS) ran
    ret,        \* the values returned by Ping / PingUDP
    report,     \* what PrintResults printed
    unread,     \* packets that reach the socket before the deadline of the
                \* current attempt, after the one packet the attempt read
    clock,      \* now: nanoseconds since the first send;
                \* lastOutcome: now when the last result was recorded
    base        \* number of attempts of the run that came before the ones
                \* results and sent record (0 when the run is followed from
                \* its start)

vars == <<proto, config, getpid, pc, seq, conn, opened, results, sent, rb,
          sleeps, ret, report, unread, clock, base>>

\* ------------------------------------------------------------ data types
RTTs == {k * RTTStep : k \in 0..MaxRTT}

Addrs == {"target", "stranger"}

PingConfigs ==
    [Count : (-1)..MaxCount, PacketSize : (-1)..MaxPacketSize,
     Timeout : {TimeoutValue}, IntervalMS : {IntervalValue}]

\* FailedResult numbering the attempts from 0
FailedResult_ZeroBased(s) ==
    [SequenceNumber |-> s - 1, RTT |-> 0, Success |-> FALSE, From |-> ""]

\* PingResult{SequenceNumber: s, Success: false}: RTT and From keep their
\* zero values.
FailedResult(s) ==
    [SequenceNumber |-> s, RTT |-> 0, Success |-> FALSE, From |-> ""]

SuccessResult(s, rtt, from) ==
    [SequenceNumber |-> s, RTT |-> rtt, Success |-> TRUE, From |-> from]

NoPacket == [kind |-> "none"]

NoReturn == [isNil |-> TRUE, results |-> <<>>, err |-> "unset"]

NoReport == [printed |-> FALSE]

\* the clock before the first send
ClockZero == [now |-> 0, lastOutcome |-> 0]

\* a result is recorded d nanoseconds after now
OutcomeAfter(d) ==
    clock' = [now |-> clock.now + d, lastOutcome |-> clock.now + d]

\* ------------------------------------------------------- byte conversions
\* byte(seq)
ByteOf(n) == n % 256

\* uint16(n), and n & 0xffff for n >= 0
Uint16Of(n) == n % Mod16

\* make([]byte, n) for n >= 0: n zero bytes
MakeBytes(n) == [i \in 1..n |-> 0]

\* binary.BigEndian.PutUint16(data[off:off+2], v): the slice expression
\* panics when off+2 exceeds cap(data) = len(data)
CanSlice(data, off) == off + 2 <= Len(data)

PutUint16(data, off, v) ==
    [data EXCEPT ![off + 1] = v \div 256, ![off + 2] = v % 256]

\* buffer[i] of the 1500-byte zeroed read buffer after a datagram d was
\* copied to its front (0-based i)
BufferByte(d, i) ==
    IF i < Len(d) /\ i < ReadBufLen THEN d[i + 1] ELSE 0

\* binary.BigEndian.Uint16(buffer[off:off+2])
BEUint16(d, off) == BufferByte(d, off) * 256 + BufferByte(d, off + 1)

\* ------------------------------------------------------------ ICMP probe
\* EchoRequest with the fill loop lost: the data bytes stay zero
EchoRequest_ZeroFill(pid, s, size) ==
    [Type |-> "echo", Code |-> 0, ID |-> Uint16Of(pid), Seq |-> s,
     Data |-> [i \in 1..size |-> 0]]

\* icmp.Message{Type: ipv4.ICMPTypeEcho, Code: 0, Body: &icmp.Echo{ID:
\* os.Getpid() & 0xffff, Seq: seq, Data: make([]byte, PacketSize)}} with
\* every data byte then set to byte(seq)
EchoRequest(pid, s, size) ==
    [Type |-> "echo", Code |-> 0, ID |-> Uint16Of(pid), Seq |-> s,
     Data |-> [i \in 1..size |-> ByteOf(s)]]

\* msg.Marshal(nil): the echo body is written with 16-bit ID and Seq fields.
\* For an ipv4 echo message Marshal returns no error.
Marshal(msg) ==
    [kind |-> "icmp", Type |-> msg.Type, ID |-> Uint16Of(msg.ID),
     Seq |-> Uint16Of(msg.Seq), Data |-> msg.Data]

\* What conn.ReadFrom can deliver while attempt s waits: bytes that
\* icmp.ParseMessage rejects, or a message of any type, for this or another
\* identifier, answering this or the previous sequence number.
ICMPPackets(pid, s) ==
    {[kind |-> "garbage"]} \cup
    [kind : {"icmp"},
     Type : {"echo reply", "destination unreachable"},
     ID   : {Uint16Of(pid), Uint16Of(pid + 1)},
     Seq  : {Uint16Of(s), Uint16Of(s - 1 + Mod16)}]

\* What else can reach the socket before the deadline of attempt s, after the
\* packet that conn.ReadFrom returned: nothing, or one more message
LaterICMP(pid, s) ==
    {<<>>} \cup {<<p>> : p \in {q \in ICMPPackets(pid, s) : q.kind = "icmp"}}

\* icmp.ParseMessage(...) returns an error
ParseFails(pkt) == pkt.kind = "garbage"

\* switch rm.Type { case ipv4.ICMPTypeEchoReply: success; default: failure }
IsAccepted(rm) == rm.Type = "echo reply"

\* DeferClose with the defer statement missing
DeferClose_Missing == UNCHANGED conn

\* deferred conn.Close() on the way out of the function
DeferClose == conn' = "closed"

\* Ping_Resolve with the transport opened before the host is resolved
Ping_Resolve_ListenFirst ==
    /\ proto = "icmp"
    /\ pc = "start"
    /\ opened' = opened + 1
    /\ \/ /\ ret' = [isNil |-> TRUE, results |-> <<>>,
                     err |-> "resolution error"]
          /\ DeferClose
          /\ pc' = "done"
       \/ /\ pc' = "listen"
          /\ UNCHANGED <<ret, conn>>
    /\ UNCHANGED <<base, proto, config, getpid, seq, results, sent, rb, sleeps,
                   report, unread, clock>>

Ping_Resolve ==
    /\ proto = "icmp"
    /\ pc = "start"
    /\ \/ /\ ret' = [isNil |-> TRUE, results |-> <<>>,
                     err |-> "resolution error"]
          /\ pc' = "done"
       \/ /\ pc' = "listen"
          /\ UNCHANGED ret
    /\ UNCHANGED <<base, proto, config, getpid, seq, conn, opened, results, sent,
                   rb, sleeps, report, unread, clock>>

Ping_Listen ==
    /\ proto = "icmp"
    /\ pc = "listen"
    /\ \/ /\ ret' = [isNil |-> TRUE, results |-> <<>>, err |-> "listen error"]
          /\ pc' = "done"
          /\ UNCHANGED <<conn, opened, seq>>
       \/ /\ opened' = opened + 1
          /\ UNCHANGED ret
          /\ IF config.Count < 0
             THEN \* make([]PingResult, 0, Count) panics
                  /\ DeferClose
                  /\ pc' = "panic"
                  /\ UNCHANGED seq
             ELSE /\ conn' = "open"
                  /\ seq' = 1
                  /\ pc' = "loop"
    /\ UNCHANGED <<base, proto, config, getpid, results, sent, rb, sleeps, report,
                   unread, clock>>

Ping_Return ==
    /\ proto = "icmp"
    /\ pc = "loop"
    /\ seq > config.Count
    /\ ret' = [isNil |-> FALSE, results |-> results, err |-> "nil"]
    /\ DeferClose
    /\ pc' = "done"
    /\ UNCHANGED <<base, proto, config, getpid, seq, opened, results, sent, rb,
                   sleeps, report, unread, clock>>

Ping_Send ==
    /\ proto = "icmp"
    /\ pc = "loop"
    /\ seq <= config.Count
    /\ IF config.PacketSize < 0
       THEN \* make([]byte, PacketSize) panics
            /\ DeferClose
            /\ pc' = "panic"
            /\ UNCHANGED <<seq, results, sent>>
       ELSE LET wb == Marshal(EchoRequest(getpid, seq, config.PacketSize))
            IN  /\ sent' = Append(sent, wb)
                /\ UNCHANGED conn
                /\ \/ \* conn.WriteTo fails
                      /\ results' = Append(results, FailedResult(seq))
                      /\ seq' = seq + 1
                      /\ pc' = "loop"
                   \/ /\ pc' = "deadline"
                      /\ UNCHANGED <<seq, results>>
    /\ UNCHANGED <<base, proto, config, getpid, opened, rb, sleeps, ret, report,
                   unread, clock>>

\* Ping_SetReadDeadline handing back the attempts recorded so far with the error
Ping_SetReadDeadline_Partial ==
    /\ proto = "icmp"
    /\ pc = "deadline"
    /\ \/ /\ ret' = [isNil |-> FALSE, results |-> results,
                     err |-> "set deadline error"]
          /\ DeferClose
          /\ pc' = "done"
       \/ /\ pc' = "read"
          /\ UNCHANGED <<ret, conn>>
    /\ UNCHANGED <<base, proto, config, getpid, seq, opened, results, sent, rb,
                   sleeps, report, unread, clock>>

Ping_SetReadDeadline ==
    /\ proto = "icmp"
    /\ pc = "deadline"
    /\ \/ /\ ret' = [isNil |-> TRUE, results |-> <<>>,
                     err |-> "set deadline error"]
          /\ DeferClose
          /\ pc' = "done"
       \/ /\ pc' = "read"
          /\ UNCHANGED <<ret, conn>>
    /\ UNCHANGED <<base, proto, config, getpid, seq, opened, results, sent, rb,
                   sleeps, report, unread, clock>>

Ping_Read ==
    /\ proto = "icmp"
    /\ pc = "read"
    /\ \/ \* conn.ReadFrom fails: at once with a transport error, or when the
          \* deadline is reached
          \E waited \in {0, config.Timeout} :
            /\ results' = Append(results, FailedResult(seq))
            /\ seq' = seq + 1
            /\ pc' = "loop"
            /\ OutcomeAfter(waited)
            /\ UNCHANGED <<rb, unread>>
       \/ \E pkt \in ICMPPackets(getpid, seq), from \in Addrs, rtt \in RTTs :
            /\ OutcomeAfter(rtt)
            /\ IF ParseFails(pkt)
               THEN /\ results' = Append(results, FailedResult(seq))
                    /\ seq' = seq + 1
                    /\ pc' = "loop"
                    /\ UNCHANGED <<rb, unread>>
               ELSE /\ rb' = pkt
                    /\ unread' \in LaterICMP(getpid, seq)
                    /\ pc' = "sleep"
                    /\ UNCHANGED seq
                    /\ IF IsAccepted(pkt)
                       THEN results' =
                              Append(results, SuccessResult(seq, rtt, from))
                       ELSE results' = Append(results, FailedResult(seq))
    /\ UNCHANGED <<base, proto, config, getpid, conn, opened, sent, sleeps, ret,
                   report>>

Ping_Sleep ==
    /\ proto = "icmp"
    /\ pc = "sleep"
    /\ sleeps' = Append(sleeps, seq)
    /\ clock' = [clock EXCEPT !.now = @ + config.IntervalMS]
    /\ seq' = seq + 1
    /\ rb' = NoPacket
    /\ unread' = <<>>
    /\ pc' = "loop"
    /\ UNCHANGED <<base, proto, config, getpid, conn, opened, results, sent, ret,
                   report>>

\* ------------------------------------------------------------- UDP probe
\* data := make([]byte, PacketSize) with uint16(pid) written big-endian at
\* data[0:2] and uint16(seq) at data[2:4]
UDPPayload(pid, s, size) ==
    PutUint16(PutUint16(MakeBytes(size), 0, Uint16Of(pid)), 2, Uint16Of(s))

\* the two slice expressions data[0:2] and data[2:4] are in range
UDPPayloadFits(size) ==
    /\ CanSlice(MakeBytes(size), 0)
    /\ CanSlice(MakeBytes(size), 2)

\* What conn.ReadFromUDP can deliver while attempt s waits, d being the
\* datagram just sent: d echoed back, an empty or a one-byte datagram, only
\* the first two bytes of d, the echo of the previous attempt, an echo
\* carrying another identifier, and d with its last byte changed.
UDPDatagrams(d, pid, s) ==
    {d, <<>>, <<1>>, SubSeq(d, 1, 2),
     PutUint16(d, 2, Uint16Of(s - 1 + Mod16)),
     PutUint16(d, 0, Uint16Of(pid + 1)),
     [d EXCEPT ![Len(d)] = 255 - d[Len(d)]]}

\* What else can reach the socket before the deadline of attempt s, after the
\* datagram that conn.ReadFromUDP returned: nothing, or one more datagram
LaterUDP(d, pid, s) ==
    {<<>>} \cup {<<x>> : x \in UDPDatagrams(d, pid, s)}

\* IsEchoOf without the comparison: any datagram counts
IsEchoOf_AnyDatagram(d, pid, s) == TRUE

\* if receivedPid == pid && receivedSeq == seq, both read from buffer[0:4]
IsEchoOf(d, pid, s) ==
    /\ BEUint16(d, 0) = pid
    /\ BEUint16(d, 2) = s

PingUDP_Resolve ==
    /\ proto = "udp"
    /\ pc = "start"
    /\ \/ /\ ret' = [isNil |-> TRUE, results |-> <<>>,
                     err |-> "UDP resolution error"]
          /\ pc' = "done"
       \/ /\ pc' = "listen"
          /\ UNCHANGED ret
    /\ UNCHANGED <<base, proto, config, getpid, seq, conn, opened, results, sent,
                   rb, sleeps, report, unread, clock>>

PingUDP_Dial ==
    /\ proto = "udp"
    /\ pc = "listen"
    /\ \/ /\ ret' = [isNil |-> TRUE, results |-> <<>>,
                     err |-> "UDP dial error"]
          /\ pc' = "done"
          /\ UNCHANGED <<conn, opened, seq>>
       \/ /\ opened' = opened + 1
          /\ UNCHANGED ret
          /\ IF config.Count < 0
             THEN \* make([]PingResult, 0, Count) panics
                  /\ DeferClose
                  /\ pc' = "panic"
                  /\ UNCHANGED seq
             ELSE /\ conn' = "open"
                  /\ seq' = 1
                  /\ pc' = "loop"
    /\ UNCHANGED <<base, proto, config, getpid, results, sent, rb, sleeps, report,
                   unread, clock>>

PingUDP_Return ==
    /\ proto = "udp"
    /\ pc = "loop"
    /\ seq > config.Count
    /\ ret' = [isNil |-> FALSE, results |-> results, err |-> "nil"]
    /\ DeferClose
    /\ pc' = "done"
    /\ UNCHANGED <<base, proto, config, getpid, seq, opened, results, sent, rb,
                   sleeps, report, unread, clock>>

PingUDP_Send ==
    /\ proto = "udp"
    /\ pc = "loop"
    /\ seq <= config.Count
    /\ IF config.PacketSize < 0 \/ ~UDPPayloadFits(config.PacketSize)
       THEN \* make([]byte, PacketSize) or a slice expression panics
            /\ DeferClose
            /\ pc' = "panic"
            /\ UNCHANGED <<seq, results, sent>>
       ELSE LET pid  == Uint16Of(getpid)
                data == UDPPayload(pid, seq, config.PacketSize)
            IN  /\ sent' = Append(sent, data)
                /\ UNCHANGED conn
                /\ \/ \* conn.Write fails
                      /\ results' = Append(results, FailedResult(seq))
                      /\ seq' = seq + 1
                      /\ pc' = "loop"
                   \/ /\ pc' = "deadline"
                      /\ UNCHANGED <<seq, results>>
    /\ UNCHANGED <<base, proto, config, getpid, opened, rb, sleeps, ret, report,
                   unread, clock>>

PingUDP_SetReadDeadline ==
    /\ proto = "udp"
    /\ pc = "deadline"
    /\ \/ /\ ret' = [isNil |-> TRUE, results |-> <<>>,
                     err |-> "set UDP deadline error"]
          /\ DeferClose
          /\ pc' = "done"
       \/ /\ pc' = "read"
          /\ UNCHANGED <<ret, conn>>
    /\ UNCHANGED <<base, proto, config, getpid, seq, opened, results, sent, rb,
                   sleeps, report, unread, clock>>

PingUDP_Read ==
    /\ proto = "udp"
    /\ pc = "read"
    /\ \/ \* conn.ReadFromUDP fails: at once with a transport error, or when
          \* the deadline is reached
          \E waited \in {0, config.Timeout} :
            /\ results' = Append(results, FailedResult(seq))
            /\ seq' = seq + 1
            /\ pc' = "loop"
            /\ OutcomeAfter(waited)
            /\ UNCHANGED <<rb, unread>>
       \/ LET pid == Uint16Of(getpid)
          IN  \E d \in UDPDatagrams(sent[Len(sent)], pid, seq), rtt \in RTTs :
                /\ OutcomeAfter(rtt)
                /\ rb' = [kind |-> "udp", bytes |-> d]
                /\ unread' \in LaterUDP(sent[Len(sent)], pid, seq)
                /\ pc' = "sleep"
                /\ UNCHANGED seq
                /\ IF IsEchoOf(d, pid, seq)
                   THEN results' =
                          Append(results, SuccessResult(seq, rtt, "target"))
                   ELSE results' = Append(results, FailedResult(seq))
    /\ UNCHANGED <<base, proto, config, getpid, conn, opened, sent, sleeps, ret,
                   report>>

PingUDP_Sleep ==
    /\ proto = "udp"
    /\ pc = "sleep"
    /\ sleeps' = Append(sleeps, seq)
    /\ clock' = [clock EXCEPT !.now = @ + config.IntervalMS]
    /\ seq' = seq + 1
    /\ rb' = NoPacket
    /\ unread' = <<>>
    /\ pc' = "loop"
    /\ UNCHANGED <<base, proto, config, getpid, conn, opened, results, sent, ret,
                   report>>

\* ------------------------------------------------------------ statistics
\* Accumulate with the success test lost: every result is counted and timed
Accumulate_CountAll(st, r) ==
    [successCount |-> st.successCount + 1,
     min   |-> IF st.min = 0 \/ r.RTT < st.min THEN r.RTT ELSE st.min,
     max   |-> IF st.max = 0 \/ r.RTT > st.max THEN r.RTT ELSE st.max,
     total |-> st.total + r.RTT]

\* One pass of the range loop of PrintResults over a result
Accumulate(st, r) ==
    IF r.Success
    THEN [successCount |-> st.successCount + 1,
          min   |-> IF st.min = 0 \/ r.RTT < st.min THEN r.RTT ELSE st.min,
          max   |-> IF st.max = 0 \/ r.RTT > st.max THEN r.RTT ELSE st.max,
          total |-> st.total + r.RTT]
    ELSE st

\* successCount := 0; var min, max, total time.Duration
ZeroStats == [successCount |-> 0, min |-> 0, max |-> 0, total |-> 0]

RECURSIVE RangeLoop(_, _, _)
RangeLoop(rs, i, st) ==
    IF i > Len(rs) THEN st ELSE RangeLoop(rs, i + 1, Accumulate(st, rs[i]))

\* the line printed for one result
ResultLine(r, protocol) ==
    IF r.Success
    THEN [text |-> "bytes from", protocol |-> protocol, from |-> r.From,
          seq |-> r.SequenceNumber, time |-> r.RTT]
    ELSE [text |-> "Request timeout", protocol |-> protocol, from |-> "",
          seq |-> r.SequenceNumber, time |-> 0]

\* PacketLoss dividing the successes, not the failures, by the attempts
PacketLoss_Received(n, successCount) ==
    [nan |-> (n = 0), num |-> successCount * 100, den |-> n]

\* float64(len(results)-successCount) / float64(len(results)) * 100, kept as
\* the exact fraction num/den; 0/0 is NaN
PacketLoss(n, successCount) ==
    [nan |-> (n = 0), num |-> (n - successCount) * 100, den |-> n]

\* total.Milliseconds()
Milliseconds(d) == d \div Millisecond

PrintResults(rs, protocol) ==
    LET st == RangeLoop(rs, 1, ZeroStats)
        avg == IF st.successCount > 0 THEN st.total \div st.successCount ELSE 0
    IN  [printed     |-> TRUE,
         lines       |-> [i \in 1..Len(rs) |-> ResultLine(rs[i], protocol)],
         transmitted |-> Len(rs),
         received    |-> st.successCount,
         packetLoss  |-> PacketLoss(Len(rs), st.successCount),
         timeMs      |-> Milliseconds(st.total),
         rttLine     |-> st.successCount > 0,
         min         |-> st.min,
         avg         |-> avg,
         max         |-> st.max]

\* main: results, err := p.Ping(); if err != nil { os.Exit(1) };
\* pinger.PrintResults(host, results)
Main_PrintResults ==
    /\ pc = "done"
    /\ ret.err = "nil"
    /\ report' = PrintResults(ret.results, proto)
    /\ pc' = "printed"
    /\ UNCHANGED <<base, proto, config, getpid, seq, conn, opened, results, sent,
                   rb, sleeps, ret, unread, clock>>

Main_Exit ==
    /\ pc = "done"
    /\ ret.err # "nil"
    /\ pc' = "exit 1"
    /\ UNCHANGED <<base, proto, config, getpid, seq, conn, opened, results, sent,
                   rb, sleeps, ret, report, unread, clock>>

\* --------------------------------------------------------- specifications
Pids == {4242, Mod16 + 7}

Init ==
    /\ proto \in {"icmp", "udp"}
    /\ config \in PingConfigs
    /\ getpid \in Pids
    /\ pc = "start"
    /\ seq = 0
    /\ conn = "none"
    /\ opened = 0
    /\ results = <<>>
    /\ sent = <<>>
    /\ rb = NoPacket
    /\ sleeps = <<>>
    /\ ret = NoReturn
    /\ report = NoReport
    /\ unread = <<>>
    /\ clock = ClockZero
    /\ base = 0

Next ==
    \/ Ping_Resolve
    \/ Ping_Listen
    \/ Ping_Return
    \/ Ping_Send
    \/ Ping_SetReadDeadline
    \/ Ping_Read
    \/ Ping_Sleep
    \/ PingUDP_Resolve
    \/ PingUDP_Dial
    \/ PingUDP_Return
    \/ PingUDP_Send
    \/ PingUDP_SetReadDeadline
    \/ PingUDP_Read
    \/ PingUDP_Sleep
    \/ Main_PrintResults
    \/ Main_Exit

Spec == Init /\ [][Next]_vars

\* PrintResults applied to every result list of at most MaxLen entries,
\* whether or not a run of the engine can produce it
ResultLists ==
    UNION {[1..n -> [Success : BOOLEAN, RTT : RTTs]] : n \in 0..MaxLen}

AsResults(l) ==
    [i \in 1..Len(l) |->
        [SequenceNumber |-> i, RTT |-> l[i].RTT, Success |-> l[i].Success,
         From |-> IF l[i].Success THEN "target" ELSE ""]]

InitStats ==
    /\ proto \in {"icmp", "udp"}
    /\ getpid = 4242
    /\ pc = "done"
    /\ seq = 0
    /\ conn = "none"
    /\ opened = 0
    /\ results = <<>>
    /\ sent = <<>>
    /\ rb = NoPacket
    /\ sleeps = <<>>
    /\ \E l \in ResultLists :
         /\ config = [Count |-> Len(l), PacketSize |-> 0,
                      Timeout |-> TimeoutValue,
                      IntervalMS |-> IntervalValue]
         /\ ret = [isNil |-> FALSE, results |-> AsResults(l), err |-> "nil"]
    /\ report = NoReport
    /\ unread = <<>>
    /\ clock = ClockZero
    /\ base = 0

NextStats == Main_PrintResults

SpecStats == InitStats /\ [][NextStats]_vars

\* A run followed from the head of iteration seq, for sequence numbers at
\* which the 8-bit fill byte and the 16-bit sequence field wrap. The seq - 1
\* earlier attempts are counted in base; results and sent record the attempts
\* from seq on, sleeps and clock start here.
LongSeqs == {1, 255, 256, 257, Mod16, Mod16 + 1}

InitLong ==
    /\ proto \in {"icmp", "udp"}
    /\ getpid \in Pids
    /\ seq \in LongSeqs
    /\ \E n \in {seq, seq + 1}, size \in 0..MaxPacketSize :
         config = [Count |-> n, PacketSize |-> size,
                   Timeout |-> TimeoutValue, IntervalMS |-> IntervalValue]
    /\ pc = "loop"
    /\ conn = "open"
    /\ opened = 1
    /\ results = <<>>
    /\ sent = <<>>
    /\ rb = NoPacket
    /\ sleeps = <<>>
    /\ ret = NoReturn
    /\ report = NoReport
    /\ unread = <<>>
    /\ clock = ClockZero
    /\ base = seq - 1

NextLong ==
    \/ Ping_Return
    \/ Ping_Send
    \/ Ping_SetReadDeadline
    \/ Ping_Read
    \/ Ping_Sleep
    \/ PingUDP_Return
    \/ PingUDP_Send
    \/ PingUDP_SetReadDeadline
    \/ PingUDP_Read
    \/ PingUDP_Sleep

SpecLong == InitLong /\ [][NextLong]_vars

\* ------------------------------------------------------------ properties
Returned == pc \in {"done", "printed", "exit 1"}

\* validated configuration: non-negative count and size
ValidConfig == config.Count >= 0 /\ config.PacketSize >= 0

ResolutionErrors == {"resolution error", "UDP resolution error"}

SetupErrors == ResolutionErrors \cup {"listen error", "UDP dial error"}

\* C1: whenever Ping or PingUDP returns after the transport was opened, under
\* a valid configuration, the returned list has exactly Count entries whose
\* sequence numbers are 1..Count in order, whatever happened to the attempts.
C1_ReturnedListIsOneToCount ==
    (Returned /\ opened > 0 /\ ValidConfig) =>
        /\ Len(ret.results) = config.Count
        /\ \A i \in 1..Len(ret.results) : ret.results[i].SequenceNumber = i

\* C2: a non-nil error is returned only for a setup failure that happens
\* before any probe packet is sent.
C2_ErrorOnlyBeforeFirstProbe ==
    (Returned /\ ret.err # "nil") =>
        /\ ret.err \in SetupErrors
        /\ sent = <<>>

\* C3: when the host cannot be resolved, the run returns an error and a nil
\* list, having opened no transport, sent no packet and recorded no attempt.
C3_ResolutionFailureHasNoEffect ==
    (Returned /\ ret.err \in ResolutionErrors) =>
        /\ ret.isNil
        /\ ret.results = <<>>
        /\ opened = 0
        /\ conn = "none"
        /\ sent = <<>>
        /\ results = <<>>
        /\ sleeps = <<>>

C3_Witness ==
    /\ pc = "done"
    /\ proto = "icmp"
    /\ ret.err = "resolution error"
    /\ config.Count > 0

\* C4: in Ping, the attempt for sequence number s is a success only if the
\* packet read in that attempt is an echo reply carrying this run's
\* identifier and sequence number s.
C4_SuccessOnlyForMatchingReply ==
    (proto = "icmp" /\ pc = "sleep" /\ results[Len(results)].Success) =>
        /\ rb.Type = "echo reply"
        /\ rb.ID = getpid % Mod16
        /\ rb.Seq = seq % Mod16

Head4(d) == [i \in 1..4 |-> IF i <= Len(d) THEN d[i] ELSE 0]

AttemptFails ==
    /\ pc \in {"loop", "read"}
    /\ pc' = "loop"

\* a step that hands a probe to the transport
ProbeSent == sent' # sent

\* C6: when the send or the read of attempt s fails, exactly one result
\* (s, Success=false, RTT 0, From "") is appended, the run neither returns
\* nor closes the transport, and if s < Count the next step of the engine is
\* the send of the probe for s+1.
C6_FailedAttemptIsRecordedAndRunGoesOn ==
    [][/\ AttemptFails =>
            /\ results' = Append(results,
                    [SequenceNumber |-> seq, RTT |-> 0, Success |-> FALSE,
                     From |-> ""])
            /\ seq' = seq + 1
            /\ ret' = NoReturn
            /\ conn' = "open"
            /\ (seq < config.Count => seq' <= config.Count)
       /\ (pc = "loop" /\ seq <= config.Count /\ Len(results) > 0) =>
            /\ ProbeSent
            /\ Len(sent') = Len(sent) + 1
            /\ Len(results) = seq - 1
       ]_vars

C6_Witness ==
    /\ pc = "deadline"
    /\ seq = 2
    /\ Len(sent) = 2
    /\ results = <<[SequenceNumber |-> 1, RTT |-> 0, Success |-> FALSE,
                    From |-> ""]>>

\* C7: for every s < Count, between the outcome of attempt s and the send of
\* the probe for s+1 the engine sleeps exactly once: every probe after the
\* first was preceded by one sleep after the attempt before it.
C7_OneSleepBeforeEveryNextProbe ==
    \A s \in 1..(Len(sent) - 1) :
        Cardinality({i \in DOMAIN sleeps : sleeps[i] = s}) = 1

\* ---- statistics
Successes(rs) == {i \in DOMAIN rs : rs[i].Success}

RECURSIVE SumRTT(_, _)
SumRTT(rs, I) ==
    IF I = {} THEN 0
    ELSE LET i == CHOOSE j \in I : TRUE
         IN  rs[i].RTT + SumRTT(rs, I \ {i})

\* C8: for a non-empty list PrintResults reports transmitted = number of
\* results, received = number of successful results and packet loss =
\* (transmitted - received) / transmitted * 100.
C8_CountsAndLoss ==
    (report.printed /\ Len(ret.results) > 0) =>
        LET t == Len(ret.results)
            r == Cardinality(Successes(ret.results))
        IN  /\ report.transmitted = t
            /\ report.received = r
            /\ ~report.packetLoss.nan
            /\ report.packetLoss.den > 0
            /\ report.packetLoss.num * t = (t - r) * 100 * report.packetLoss.den

\* replies to the odd sequence numbers only, Count = 5: 5 transmitted,
\* 3 received, 40% loss
C8_Witness ==
    /\ report.printed
    /\ Len(ret.results) = 5
    /\ \A i \in 1..5 : ret.results[i].Success <=> (i % 2 = 1)
    /\ report.transmitted = 5
    /\ report.received = 3
    /\ report.packetLoss.num = 40 * report.packetLoss.den

\* C9: whenever an attempt succeeded, the reported min, avg and max are the
\* minimum, the mean (in whole nanoseconds) and the maximum of the RTTs of
\* the successful results, RTTs of 0 included.
C9_MinAvgMaxOfSuccesses ==
    (report.printed /\ Successes(ret.results) # {}) =>
        LET rs == ret.results
            S  == Successes(rs)
            n  == Cardinality(S)
        IN  /\ report.rttLine
            /\ \E i \in S : report.min = rs[i].RTT
            /\ \A i \in S : report.min <= rs[i].RTT
            /\ \E i \in S : report.max = rs[i].RTT
            /\ \A i \in S : report.max >= rs[i].RTT
            /\ report.avg * n <= SumRTT(rs, S)
            /\ SumRTT(rs, S) < (report.avg + 1) * n

\* C10: if every attempt of a non-empty run succeeds, the reported loss is 0
\* and min <= avg <= max.
C10_AllSucceedMinAvgMaxOrdered ==
    (/\ report.printed
     /\ Len(ret.results) > 0
     /\ \A i \in DOMAIN ret.results : ret.results[i].Success) =>
        /\ report.packetLoss.num = 0
        /\ report.min <= report.avg
        /\ report.avg <= report.max

\* C11: if every attempt of a non-empty run fails, the reported loss is 100
\* and no rtt min/avg/max line is produced.
C11_AllFailLoss100NoRttLine ==
    (/\ report.printed
     /\ Len(ret.results) > 0
     /\ \A i \in DOMAIN ret.results : ~ret.results[i].Success) =>
        /\ report.received = 0
        /\ ~report.packetLoss.nan
        /\ report.packetLoss.den > 0
        /\ report.packetLoss.num = 100 * report.packetLoss.den
        /\ ~report.rttLine

C11_Witness ==
    /\ report.printed
    /\ Len(ret.results) = 3
    /\ \A i \in 1..3 : ~ret.results[i].Success
    /\ ~report.rttLine
    /\ report.packetLoss.num = 100 * report.packetLoss.den

\* C12: for an empty result list the report is well defined: 0 transmitted,
\* 0 received, a loss value that is a number, and no min/avg/max.
C12_EmptyListReportIsDefined ==
    (report.printed /\ ValidConfig /\ Len(ret.results) = 0) =>
        /\ report.transmitted = 0
        /\ report.received = 0
        /\ ~report.packetLoss.nan
        /\ ~report.rttLine

Exited == pc \in {"done", "printed", "exit 1", "panic"}

\* C13: the transport is opened at most once, every transport that was opened
\* is closed once the operation has ended, and every send and every read
\* happens on an open transport.
C13_TransportOpenedOnceAndClosed ==
    /\ [](/\ opened <= 1
          /\ (opened = 0) <=> (conn = "none")
          /\ Exited => conn # "open")
    /\ [][(sent' # sent \/ pc = "read") =>
            (conn = "open" /\ conn' = "open")]_vars

C13_Witness ==
    /\ pc = "done"
    /\ ret.err = "nil"
    /\ opened = 1
    /\ conn = "closed"
    /\ Len(sent) >= 2

\* C14: a configuration with a negative Count or PacketSize is rejected
\* before use: the run ends with an error, no transport is opened, no packet
\* is sent and no attempt is recorded.
C14_InvalidConfigRejected ==
    ~ValidConfig =>
        /\ opened = 0
        /\ sent = <<>>
        /\ results = <<>>
        /\ pc # "panic"
        /\ Returned => ret.err # "nil"

\* C18: whenever Ping or PingUDP returns a non-nil error the returned list is
\* nil, also when attempts had already been recorded.
C18_ErrorMeansNilList ==
    (Returned /\ ret.err # "nil") =>
        /\ ret.isNil
        /\ ret.results = <<>>

C18_Witness ==
    /\ pc = "done"
    /\ ret.err = "set deadline error"
    /\ ret.isNil
    /\ Len(results) >= 1

\* C19: PingUDP builds and sends its probe without a runtime failure for every
\* PacketSize >= 0, the sizes 0 to 3 included.
C19_UDPProbeNeverPanics ==
    (proto = "udp" /\ ValidConfig) => pc # "panic"

\* a reply matching attempt seq reached the socket before the deadline: the
\* packet that was read, or one that arrived after it
MatchingReplyArrived ==
    IF proto = "icmp"
    THEN \E p \in {rb} \cup {unread[i] : i \in DOMAIN unread} :
           /\ p.Type = "echo reply"
           /\ p.ID = getpid % Mod16
           /\ p.Seq = seq % Mod16
    ELSE \E d \in {rb.bytes} \cup {unread[i] : i \in DOMAIN unread} :
           d = sent[Len(sent)]

\* C16: an attempt whose matching reply arrives before the deadline is
\* recorded as success, also when a non-matching packet is received first.
C16_MatchingReplyBeforeDeadlineIsSuccess ==
    (pc = "sleep" /\ MatchingReplyArrived) => results[Len(results)].Success

\* C17: the time figure of the summary is the elapsed time of the run, from
\* the first send to the last recorded outcome, in milliseconds.
C17_TimeIsElapsedTime ==
    (report.printed /\ ValidConfig) =>
        report.timeMs = clock.lastOutcome \div Millisecond

\* C15 as claimed: the echo request of attempt s carries sequence number s
\* and exactly PacketSize data bytes, each equal to s mod 256.
C15_EchoRequestCarriesSeq ==
    (proto = "icmp" /\ sent # <<>>) =>
        LET s == base + Len(sent)
            p == sent[Len(sent)]
        IN  /\ p.Type = "echo"
            /\ p.Seq = s
            /\ Len(p.Data) = config.PacketSize
            /\ \A i \in 1..Len(p.Data) : p.Data[i] = s % 256

\* C15 as amended: the echo request of attempt s carries s mod 2^16 in its
\* 16-bit sequence field and exactly PacketSize data bytes, each equal to
\* s mod 256.
C15_EchoRequestCarriesSeqMod16 ==
    (proto = "icmp" /\ sent # <<>>) =>
        LET s == base + Len(sent)
            p == sent[Len(sent)]
        IN  /\ p.Type = "echo"
            /\ p.Seq = s % Mod16
            /\ Len(p.Data) = config.PacketSize
            /\ \A i \in 1..Len(p.Data) : p.Data[i] = s % 256

C15_Witness ==
    /\ proto = "icmp"
    /\ pc = "deadline"
    /\ seq = Mod16 + 1
    /\ base + Len(sent) = seq
    /\ sent[Len(sent)].Seq = 1
    /\ sent[Len(sent)].Data = [i \in 1..MaxPacketSize |-> 1]

\* C20: when the peer echoes the datagram of attempt s back unchanged before
\* the deadline, PingUDP records attempt s as success, for every s.
C20_EchoPeerAlwaysSucceeds ==
    (proto = "udp" /\ pc = "sleep" /\ rb.bytes = sent[Len(sent)]) =>
        results[Len(results)].Success

====
